---- MODULE Spec2Model ----
(***************************************************************************)
(* Model of the gitpod-ssh command line tool: the three entry scripts of   *)
(* the repository (src/index.js, src/unnamed/part_000 and the commander    *)
(* based src/unnamed/part_001), the listing parser, the lister, the        *)
(* selection prompt, the start step and the two connection strategies.     *)
(* Text is modelled by TLA+ strings, processed character by character the  *)
(* way the JavaScript string methods of the source process it.             *)
(***************************************************************************)
EXTENDS Integers, Sequences, FiniteSets, TLC

VARIABLES
  script,        \* which entry script runs
  command,       \* part_001: the subcommand given on the command line
  options,       \* part_001: the options commander hands to the code handler
  avail,         \* which commands `which` finds on the search path
  pc,            \* position of the single flow of control
  pending,       \* the exec() invocation the flow awaits, "" when none
  listResult,    \* history: what the listing invocation answered
  startResult,   \* history: what the start invocation answered
  environments,  \* result of getGitpodEnvironments
  chosen,        \* index of the list entry the user confirmed, 0 before
  answer,        \* answers.environmentId
  selectedEnv,   \* the record the flow goes on with
  editorCommand, \* openInEditor's local variable
  child,         \* state of the connection subprocess
  calls,         \* history: every exec() issued and settled and every spawn(), in order
  log,           \* history: every console line, in order
  error,         \* the error the top-level catch received
  exitCode       \* <<>> while the process runs, <<code>> once it has exited

vars == <<script, command, options, avail, pc, pending, listResult, startResult, environments, chosen,
          answer, selectedEnv, editorCommand, child, calls, log, error, exitCode>>

----------------------------------------------------------------------------
(* Bounds and program constants *)

MaxRows == 2

MaxLines == 3

SSH_HOST_SUFFIX == "gitpod.environment"

DEFAULT_WORKSPACE_PATH == "/workspaces/obsidian"

Undefined == "<undefined>"

Null == "<null>"

NoError == [code |-> Undefined, message |-> ""]

NoEnv == [id |-> Undefined]

NoResult == [status |-> "none", code |-> "", stdout |-> "", stderr |-> "", located |-> TRUE]

NoEvent == [hasCode |-> FALSE, code |-> 0, signal |-> Null]

Child(state) == [state |-> state, ev |-> NoEvent]

----------------------------------------------------------------------------
(* JavaScript string methods *)

Ch(s, i) == SubSeq(s, i, i)

IsSpace(c) == c \in {" ", "\t", "\n", "\r"}

Upper == "ABCDEFGHIJKLMNOPQRSTUVWXYZ"

Lower == "abcdefghijklmnopqrstuvwxyz"

\* the lower-case letter of every upper-case letter
LowerOf == { <<Ch(Upper, k), Ch(Lower, k)>> : k \in 1..Len(Upper) }

LowerCh(c) ==
  IF \E m \in LowerOf : m[1] = c THEN (CHOOSE m \in LowerOf : m[1] = c)[2] ELSE c

RECURSIVE ToLowerCase(_)
ToLowerCase(s) ==
  IF s = "" THEN "" ELSE LowerCh(Ch(s, 1)) \o ToLowerCase(SubSeq(s, 2, Len(s)))

Includes(s, needle) ==
  \E i \in 1..(Len(s) - Len(needle) + 1) : SubSeq(s, i, i + Len(needle) - 1) = needle

Truthy(s) == s # "" /\ s # Undefined /\ s # Null

\* first index from i on that holds no white space, Len(s) + 1 when none
RECURSIVE SkipSpaces(_, _)
SkipSpaces(s, i) ==
  IF i > Len(s) \/ ~IsSpace(Ch(s, i)) THEN i ELSE SkipSpaces(s, i + 1)

\* last index up to i that holds no white space, 0 when none
RECURSIVE SkipSpacesBack(_, _)
SkipSpacesBack(s, i) ==
  IF i < 1 \/ ~IsSpace(Ch(s, i)) THEN i ELSE SkipSpacesBack(s, i - 1)

\* first index from i on that holds white space, Len(s) + 1 when none
RECURSIVE NextSpace(_, _)
NextSpace(s, i) ==
  IF i > Len(s) \/ IsSpace(Ch(s, i)) THEN i ELSE NextSpace(s, i + 1)

\* s.indexOf(c, i), counted from 1, 0 when absent
RECURSIVE IndexOf(_, _, _)
IndexOf(s, c, i) ==
  IF i > Len(s) THEN 0 ELSE IF Ch(s, i) = c THEN i ELSE IndexOf(s, c, i + 1)

Trim(s) ==
  LET a == SkipSpaces(s, 1)
      b == SkipSpacesBack(s, Len(s))
  IN IF a > b THEN "" ELSE SubSeq(s, a, b)

\* s.split(sep) for a one-character separator
RECURSIVE Split(_, _)
Split(s, sep) ==
  LET i == IndexOf(s, sep, 1)
  IN IF i = 0 THEN <<s>>
     ELSE <<SubSeq(s, 1, i - 1)>> \o Split(SubSeq(s, i + 1, Len(s)), sep)

\* s.split(/\s+/)
RECURSIVE SplitWhitespace(_)
SplitWhitespace(s) ==
  LET i == NextSpace(s, 1)
  IN IF i > Len(s) THEN <<s>>
     ELSE <<SubSeq(s, 1, i - 1)>> \o SplitWhitespace(SubSeq(s, SkipSpaces(s, i), Len(s)))

\* repository.match(/\/([^\/]+)\.git$/), then repoMatch ? repoMatch[1] : repository
RepoName(repository) ==
  LET slashes == {i \in 1..Len(repository) : Ch(repository, i) = "/"}
  IN IF slashes = {} THEN repository
     ELSE LET last == CHOOSE i \in slashes : \A j \in slashes : j <= i
              seg == SubSeq(repository, last + 1, Len(repository))
          IN IF Len(seg) > Len(".git") /\ SubSeq(seg, Len(seg) - Len(".git") + 1, Len(seg)) = ".git"
             THEN SubSeq(seg, 1, Len(seg) - Len(".git"))
             ELSE repository

----------------------------------------------------------------------------
(* The environment record parser *)

\* mutant: the comparison without toLowerCase()
IsRunningExact(phase) == phase = "running"

IsRunning(phase) == ToLowerCase(phase) = "running"

FieldCount == 5

MakeEnvironment(parts) ==
  [id |-> parts[1], repository |-> parts[2], branch |-> parts[3],
   classId |-> parts[4], phase |-> parts[5],
   repoName |-> RepoName(parts[2]),
   displayName |-> RepoName(parts[2]) \o " [" \o parts[3] \o "]"]

\* runningOnly: the parser of src/index.js keeps running rows only
ParseLine(line, runningOnly) ==
  LET parts == SplitWhitespace(Trim(line))
  IN IF Len(parts) < FieldCount THEN <<>>
     ELSE IF runningOnly /\ ~IsRunning(parts[5]) THEN <<>>
     ELSE <<MakeEnvironment(parts)>>

RECURSIVE ParseLines(_, _)
ParseLines(lines, runningOnly) ==
  IF lines = <<>> THEN <<>>
  ELSE (IF Trim(Head(lines)) = "" THEN <<>> ELSE ParseLine(Head(lines), runningOnly))
       \o ParseLines(Tail(lines), runningOnly)

\* mutant: the header line is not sliced off
parseGitpodEnvironmentsKeepHeader(output, runningOnly) ==
  ParseLines(Split(Trim(output), "\n"), runningOnly)

parseGitpodEnvironments(output, runningOnly) ==
  ParseLines(Tail(Split(Trim(output), "\n")), runningOnly)

----------------------------------------------------------------------------
(* What the external collaborators can answer *)

Header == "ID REPOSITORY BRANCH CLASS PHASE"

\* Data lines of a listing: well-formed rows in several phases, a row with a
\* sixth field and repeated separators, a row that is too short, a blank line.
DataLines ==
  { "abc123 https://github.com/org/proj.git main default running",
    "abc123 https://github.com/org/proj.git main default stopped",
    "def456 https://github.com/org/tool.git dev large Running",
    "def456   git@host:org/repo\tdev  large Starting  extra",
    "ghi789 https://github.com/org/site.git main default RUNNING",
    "ghi789 https://github.com/org/site.git main default",
    "   " }

LineId(line) == Head(SplitWhitespace(Trim(line)) \o <<"">>)

\* The manager lists every environment once: ids of full rows are unique.
UniqueIds(lines) ==
  \A i, j \in 1..Len(lines) :
    (i # j /\ Len(SplitWhitespace(Trim(lines[i]))) >= FieldCount
           /\ Len(SplitWhitespace(Trim(lines[j]))) >= FieldCount)
      => LineId(lines[i]) # LineId(lines[j])

RECURSIVE JoinLines(_)
JoinLines(lines) ==
  IF lines = <<>> THEN "" ELSE Head(lines) \o "\n" \o JoinLines(Tail(lines))

Listings ==
  { JoinLines(<<Header>> \o lines) :
      lines \in {l \in UNION {[1..n -> DataLines] : n \in 0..MaxRows} : UniqueIds(l)} }

SampleListing == JoinLines(<<Header, "abc123 https://github.com/org/proj.git main default stopped">>)

WarnedListing ==
  JoinLines(<<Header, "abc123 https://github.com/org/proj.git main default running",
              "def456 https://github.com/org/tool.git dev large Running">>)

\* Outcomes of execAsync('gitpod environment list').  status "ok": exit
\* status 0; "exit": a non-zero exit status (the promise rejects, code is the
\* status, the message carries stderr); "spawn": the shell could not be
\* spawned.  located says whether the gitpod executable was found.
ListExecResults ==
  { [status |-> "ok", code |-> "0", stdout |-> o, stderr |-> "", located |-> TRUE] :
      o \in Listings \cup {""} }
  \cup
  { [status |-> "ok", code |-> "0", stdout |-> o, stderr |-> e, located |-> TRUE] :
      o \in {"", SampleListing, WarnedListing},
      e \in {"warning: token expires soon", "gitpod: line 3: jq: command not found"} }
  \cup
  { [status |-> "exit", code |-> "1", stdout |-> o, stderr |-> e, located |-> TRUE] :
      o \in {"", SampleListing},
      e \in {"", "error: not logged in", "gitpod: line 3: jq: command not found"} }
  \cup
  { [status |-> "exit", code |-> "127", stdout |-> "", stderr |-> e, located |-> FALSE] :
      e \in {"/bin/sh: gitpod: command not found", "/bin/sh: 1: gitpod: not found"} }
  \cup
  { [status |-> "spawn", code |-> "ENOENT", stdout |-> "", stderr |-> "", located |-> FALSE] }

\* Outcomes of execAsync(`gitpod environment start ${id}`)
StartExecResults ==
  { [status |-> "ok", code |-> "0", stdout |-> "", stderr |-> e, located |-> TRUE] :
      e \in {"", "Starting...", "error: quota exceeded", "Error: Quota"} }
  \cup
  { [status |-> "exit", code |-> "1", stdout |-> "", stderr |-> e, located |-> TRUE] :
      e \in {"failed to start", "error: quota exceeded"} }
  \cup
  { [status |-> "spawn", code |-> "ENOENT", stdout |-> "", stderr |-> "", located |-> FALSE] }

\* The error a rejected execAsync promise carries
ExecError(cmd, r) ==
  IF r.status = "spawn"
  THEN [code |-> r.code, message |-> "spawn /bin/sh " \o r.code]
  ELSE [code |-> r.code, message |-> "Command failed: " \o cmd \o "\n" \o r.stderr]

\* Outcomes of child_process.spawn: the child runs; the spawn fails and the
\* child emits 'error' on the next tick; spawn() itself throws.
SpawnOutcomes == {"ok", "error_event", "throw"}

\* The 'exit' event of the ssh child: a numeric code, or no code on a signal
ExitEvents ==
  { [hasCode |-> TRUE, code |-> c, signal |-> Null] : c \in {0, 1, 130, 255} }
  \cup { [hasCode |-> FALSE, code |-> 0, signal |-> "SIGTERM"] }

Scripts == {"index.js", "part_000", "part_001"}

Editors == {"cursor", "code", "vim"}

EditorOptions == {Undefined, "", "cursor", "code", "vim"}

PathOptions == {DEFAULT_WORKSPACE_PATH, "/workspace/my-project"}

----------------------------------------------------------------------------
(* Helpers of the flow *)

Exec(cmd) == [fn |-> "exec", file |-> cmd, args |-> <<>>]

\* the promise of an exec() settles (resolves or rejects)
Settled(cmd) == [fn |-> "settled", file |-> cmd, args |-> <<>>]

Spawn(file, args) == [fn |-> "spawn", file |-> file, args |-> args]

Out(text) == [stream |-> "out", text |-> text]

Err(text) == [stream |-> "err", text |-> text]

ListCommand == "gitpod environment list"

StartCommand(environmentId) == "gitpod environment start " \o environmentId

WhichCommand(cmd) == "which " \o cmd

\* mutant: the separator between id and suffix is lost
getSshHostNoDot(environmentId) == environmentId \o SSH_HOST_SUFFIX

getSshHost(environmentId) == environmentId \o "." \o SSH_HOST_SUFFIX

RemoteArg(sshHost) == "ssh-remote+" \o sshHost

\* The shell strategy is the connection of both older scripts and of the
\* ssh command and the default action of part_001.
ShellFlow == script # "part_001" \/ command \in {"", "ssh"}

\* mutant: any failure of the client becomes 1
SshExitCodeFlattened(ev) == IF ev.hasCode /\ ev.code # 0 THEN 1 ELSE 0

\* code || 0 in the 'exit' listener
SshExitCode(ev) == IF ev.hasCode /\ ev.code # 0 THEN ev.code ELSE 0

\* the history of one availability probe
Probe(cmd) == <<Exec(WhichCommand(cmd)), Settled(WhichCommand(cmd))>>

\* mutant: the probe's promise is tested instead of its value
isCommandAvailableAlways(cmd) == TRUE

\* isCommandAvailable: `which` succeeds or the rejection is swallowed
isCommandAvailable(cmd) == avail[cmd]

\* the condition under which catch blocks of the lister rewrite the error
IsNotFoundError(e) == e.code = "ENOENT" \/ Includes(e.message, "command not found")

ToolNotFoundMessage == "gitpod CLI not found. Please install it first."

ListErrorPrefix == "Error running gitpod command: "

StartErrorPrefix == "Failed to start environment: "

NeitherEditorMessage ==
  "Neither VS Code nor Cursor CLI found. Please install one of them:\n"
  \o "  - VS Code: Install and run \"Shell Command: Install 'code' command in PATH\"\n"
  \o "  - Cursor: Install and run \"Shell Command: Install 'cursor' command in PATH\""

EditorMissingMessage(cmd) ==
  cmd \o " command not found. Please ensure it's installed and in your PATH.\n"
  \o "Run \"Shell Command: Install '" \o cmd \o "' command in PATH\" from the command palette."

EditorDisplayName(cmd) == IF cmd = "cursor" THEN "Cursor" ELSE "VS Code"

\* mutant: any diagnostic text fails the listing
ListingFailedOnAnyStderr(r) == Truthy(r.stderr)

\* stderr && !stdout
ListingFailed(r) == Truthy(r.stderr) /\ ~Truthy(r.stdout)

\* getGitpodEnvironments, given what execAsync answered
getGitpodEnvironments(r, runningOnly) ==
  LET thrown == IF r.status # "ok" THEN ExecError(ListCommand, r)
                ELSE IF ListingFailed(r)
                     THEN [code |-> Undefined, message |-> ListErrorPrefix \o r.stderr]
                     ELSE NoError
  IN IF thrown = NoError
     THEN [ok |-> TRUE, value |-> parseGitpodEnvironments(r.stdout, runningOnly),
           error |-> NoError]
     ELSE [ok |-> FALSE, value |-> <<>>,
           error |-> IF IsNotFoundError(thrown)
                     THEN [code |-> Undefined, message |-> ToolNotFoundMessage]
                     ELSE thrown]

\* Every answer of the listing command with what the lister of the older
\* script (runningOnly) and of the two later scripts makes of it.
ListReturns ==
  { [exec |-> r, runningOnly |-> b, res |-> getGitpodEnvironments(r, b)] :
      r \in ListExecResults, b \in BOOLEAN }

\* mutant: the substring test ignores case
StartReportsErrorAnyCase(r) == Truthy(r.stderr) /\ Includes(ToLowerCase(r.stderr), "error")

\* stderr && stderr.includes('error')
StartReportsError(r) == Truthy(r.stderr) /\ Includes(r.stderr, "error")

\* startEnvironment, given what execAsync answered: the error it throws,
\* NoError when it returns.  The throw of the try block is caught by the
\* same function's catch and wrapped once more.
startEnvironment(environmentId, r) ==
  IF r.status # "ok"
  THEN [code |-> Undefined,
        message |-> StartErrorPrefix \o ExecError(StartCommand(environmentId), r).message]
  ELSE IF StartReportsError(r)
       THEN [code |-> Undefined,
             message |-> StartErrorPrefix \o StartErrorPrefix \o r.stderr]
       ELSE NoError

\* mutant: the callback tests the id for truth instead of comparing it
FindTruthyId(envs, id) ==
  LET idx == {i \in 1..Len(envs) : Truthy(envs[i].id)}
  IN IF idx = {} THEN NoEnv ELSE envs[CHOOSE i \in idx : \A j \in idx : i <= j]

\* environments.find(env => env.id === id)
Find(envs, id) ==
  LET idx == {i \in 1..Len(envs) : envs[i].id = id}
  IN IF idx = {} THEN NoEnv ELSE envs[CHOOSE i \in idx : \A j \in idx : i <= j]

NoEnvironmentsMessage ==
  IF script = "index.js" THEN "No running Gitpod environments found."
  ELSE "No Gitpod environments found."

\* mutant: the empty test never succeeds
NoEnvironmentsNever(envs) == Len(envs) < 0

NoEnvironments(envs) == Len(envs) = 0

CatchExitCode == 1

\* mutant: the catch block reports the error and leaves with 0
CatchExitsZero(e) ==
  /\ error' = e
  /\ log' = Append(log, Err("Error: " \o e.message))
  /\ pc' = "exited"
  /\ exitCode' = <<0>>

\* the catch block of main / handleSshCommand / handleCodeCommand
Catch(e) ==
  /\ error' = e
  /\ log' = Append(log, Err("Error: " \o e.message))
  /\ pc' = "exited"
  /\ exitCode' = <<CatchExitCode>>

----------------------------------------------------------------------------
(* Initial states: one invocation of one of the entry scripts, in the forms  *)
(* of the README: no subcommand, ssh, code, code --editor <name> and         *)
(* code --path <path>.                                                       *)

Init ==
  /\ script \in Scripts
  /\ command \in {"", "ssh", "code"}
  /\ script # "part_001" => command = ""
  /\ options \in [editor : EditorOptions, path : PathOptions]
  /\ command # "code" => options = [editor |-> Undefined, path |-> DEFAULT_WORKSPACE_PATH]
  /\ options.editor # Undefined => options.path = DEFAULT_WORKSPACE_PATH
  /\ avail \in [Editors -> BOOLEAN]
  /\ command # "code" => avail = [e \in Editors |-> FALSE]
  /\ options.editor # "vim" => ~avail["vim"]
  /\ pc = "main"
  /\ pending = ""
  /\ listResult = NoResult
  /\ startResult = NoResult
  /\ environments = <<>>
  /\ chosen = 0
  /\ answer = Undefined
  /\ selectedEnv = NoEnv
  /\ editorCommand = Undefined
  /\ child = Child("none")
  /\ calls = <<>>
  /\ log = <<>>
  /\ error = NoError
  /\ exitCode = <<>>

----------------------------------------------------------------------------
(* The flow: list, select, reconcile, connect *)

\* main / handleSshCommand / handleCodeCommand up to the await of the listing
ListCall ==
  /\ pc = "main"
  /\ log' = Append(log, Out("Fetching Gitpod environments...\n"))
  /\ calls' = Append(calls, Exec(ListCommand))
  /\ pending' = ListCommand
  /\ pc' = "list_wait"
  /\ UNCHANGED <<script, command, options, avail, listResult, startResult, environments,
                 chosen, answer, selectedEnv, editorCommand, child, error, exitCode>>

\* the listing answers: the lister throws, or the records are parsed and the
\* handler leaves with 0 when there are none
ListReturn ==
  /\ pc = "list_wait"
  /\ \E a \in ListReturns :
       LET res == a.res
       IN /\ a.runningOnly = (script = "index.js")
          /\ pending' = ""
          /\ calls' = Append(calls, Settled(ListCommand))
          /\ listResult' = a.exec
          /\ IF ~res.ok
             THEN Catch(res.error) /\ UNCHANGED environments
             ELSE /\ environments' = res.value
                  /\ error' = error
                  /\ IF NoEnvironments(res.value)
                     THEN /\ log' = Append(log, Out(NoEnvironmentsMessage))
                          /\ pc' = "exited"
                          /\ exitCode' = <<0>>
                     ELSE /\ pc' = "prompt"
                          /\ UNCHANGED <<log, exitCode>>
  /\ UNCHANGED <<script, command, options, avail, startResult, chosen, answer,
                 selectedEnv, editorCommand, child>>

\* the user confirms entry i of the list; its value is the record's id, and
\* the record is looked up again by that id (not in src/index.js)
PromptForEnvironment ==
  /\ pc = "prompt"
  /\ \E i \in 1..Len(environments) :
       /\ chosen' = i
       /\ answer' = environments[i].id
       /\ selectedEnv' = IF script = "index.js" THEN NoEnv
                         ELSE Find(environments, environments[i].id)
  /\ pc' = IF script = "index.js" THEN "connect" ELSE "ensure"
  /\ UNCHANGED <<script, command, options, avail, pending, listResult, startResult, environments,
                 editorCommand, child, calls, log, error, exitCode>>

\* the id handed on: answers.environmentId in part_000, selectedEnv.id in part_001
TargetId == IF script = "part_001" THEN selectedEnv.id ELSE answer

\* mutant: the phase test inverted
NeedsStartInverted(env) == env # NoEnv /\ IsRunning(env.phase)

NeedsStart(env) == env # NoEnv /\ ~IsRunning(env.phase)

\* ensureEnvironmentRunning (part_001) and the phase test of main (part_000),
\* up to the await inside startEnvironment
EnsureEnvironmentRunning ==
  /\ pc = "ensure"
  /\ IF NeedsStart(selectedEnv)
     THEN /\ log' = Append(log, Out("\nStarting environment " \o TargetId \o "..."))
          /\ calls' = Append(calls, Exec(StartCommand(TargetId)))
          /\ pending' = StartCommand(TargetId)
          /\ pc' = "start_wait"
     ELSE /\ pc' = "connect"
          /\ UNCHANGED <<log, calls, pending>>
  /\ UNCHANGED <<script, command, options, avail, listResult, startResult, environments,
                 chosen, answer, selectedEnv, editorCommand, child, error, exitCode>>

\* the start invocation answers
StartReturn ==
  /\ pc = "start_wait"
  /\ \E r \in StartExecResults :
       LET thrown == startEnvironment(TargetId, r)
       IN /\ pending' = ""
          /\ startResult' = r
          /\ calls' = Append(calls, Settled(StartCommand(TargetId)))
          /\ IF thrown # NoError
             THEN Catch(thrown)
             ELSE /\ log' = Append(log, Out("Environment started successfully!\n"))
                  /\ pc' = "connect"
                  /\ UNCHANGED <<error, exitCode>>
  /\ UNCHANGED <<script, command, options, avail, listResult, environments, chosen,
                 answer, selectedEnv, editorCommand, child>>

\* sshIntoGitpod: spawn the ssh client on the inherited terminal
sshIntoGitpod ==
  /\ pc = "connect"
  /\ ShellFlow
  /\ \E outcome \in SpawnOutcomes :
       LET sshHost == getSshHost(TargetId)
           line == Out((IF script = "index.js" THEN "\n" ELSE "")
                       \o "Connecting to: ssh " \o sshHost \o "\n")
       IN /\ calls' = Append(calls, Spawn("ssh", <<sshHost>>))
          /\ IF outcome = "throw"
             THEN /\ error' = [code |-> Undefined, message |-> "spawn failed"]
                  /\ log' = log \o <<line, Err("Error: spawn failed")>>
                  /\ pc' = "exited"
                  /\ exitCode' = <<CatchExitCode>>
                  /\ child' = Child("threw")
             ELSE /\ log' = Append(log, line)
                  /\ child' = Child(IF outcome = "ok" THEN "running" ELSE "failed")
                  /\ pc' = "returned"
                  /\ UNCHANGED <<error, exitCode>>
  /\ UNCHANGED <<script, command, options, avail, pending, listResult, startResult, environments, chosen,
                 answer, selectedEnv, editorCommand>>

\* sshProcess.on('error'): the ssh client could not be spawned
SshError ==
  /\ pc = "returned"
  /\ ShellFlow
  /\ child.state = "failed"
  /\ log' = Append(log, Err("Error executing SSH: spawn ssh ENOENT"))
  /\ pc' = "exited"
  /\ exitCode' = <<1>>
  /\ UNCHANGED <<script, command, options, avail, pending, listResult, startResult, environments, chosen,
                 answer, selectedEnv, editorCommand, child, calls, error>>

\* sshProcess.on('exit'): the tool leaves with the client's code
SshExit ==
  /\ pc = "returned"
  /\ ShellFlow
  /\ child.state = "running"
  /\ \E ev \in ExitEvents :
       /\ child' = [state |-> "exited", ev |-> ev]
       /\ pc' = "exited"
       /\ exitCode' = <<SshExitCode(ev)>>
  /\ UNCHANGED <<script, command, options, avail, pending, listResult, startResult, environments, chosen,
                 answer, selectedEnv, editorCommand, calls, log, error>>

\* openInEditor up to its first await: an explicit editor is verified, none
\* (undefined or the empty string) is detected
openInEditor ==
  /\ pc = "connect"
  /\ ~ShellFlow
  /\ editorCommand' = options.editor
  /\ pc' = IF Truthy(options.editor) THEN "verify" ELSE "detect_cursor"
  /\ UNCHANGED <<script, command, options, avail, pending, listResult, startResult, environments, chosen,
                 answer, selectedEnv, child, calls, log, error, exitCode>>

\* mutant: the preference order starts with the other editor
FirstCandidateCode == "code"

FirstCandidate == "cursor"

SecondCandidate == "code"

\* detectEditor, first probe
DetectFirst ==
  /\ pc = "detect_cursor"
  /\ calls' = calls \o Probe(FirstCandidate)
  /\ IF isCommandAvailable(FirstCandidate)
     THEN editorCommand' = FirstCandidate /\ pc' = "verify"
     ELSE editorCommand' = editorCommand /\ pc' = "detect_code"
  /\ UNCHANGED <<script, command, options, avail, pending, listResult, startResult, environments, chosen,
                 answer, selectedEnv, child, log, error, exitCode>>

\* detectEditor, second probe; openInEditor throws when it returns null
DetectSecond ==
  /\ pc = "detect_code"
  /\ calls' = calls \o Probe(SecondCandidate)
  /\ IF isCommandAvailable(SecondCandidate)
     THEN /\ editorCommand' = SecondCandidate
          /\ pc' = "verify"
          /\ UNCHANGED <<log, error, exitCode>>
     ELSE /\ editorCommand' = Null
          /\ Catch([code |-> Undefined, message |-> NeitherEditorMessage])
  /\ UNCHANGED <<script, command, options, avail, pending, listResult, startResult, environments, chosen,
                 answer, selectedEnv, child>>

\* "Verify the requested editor is available"
VerifyEditor ==
  /\ pc = "verify"
  /\ calls' = calls \o Probe(editorCommand)
  /\ IF isCommandAvailable(editorCommand)
     THEN pc' = "spawn_editor" /\ UNCHANGED <<log, error, exitCode>>
     ELSE Catch([code |-> Undefined, message |-> EditorMissingMessage(editorCommand)])
  /\ UNCHANGED <<script, command, options, avail, pending, listResult, startResult, environments, chosen,
                 answer, selectedEnv, editorCommand, child>>

\* options.workspacePath || DEFAULT_WORKSPACE_PATH
WorkspacePath == IF Truthy(options.path) THEN options.path ELSE DEFAULT_WORKSPACE_PATH

\* the rest of openInEditor: spawn the editor detached and unref it
SpawnEditor ==
  /\ pc = "spawn_editor"
  /\ \E outcome \in SpawnOutcomes :
       LET sshHost == getSshHost(selectedEnv.id)
           name == EditorDisplayName(editorCommand)
           opening == Out("Opening " \o name \o " to " \o sshHost \o ":" \o WorkspacePath \o "...")
           thrown == [code |-> Undefined, message |-> "Failed to open " \o name \o ": spawn failed"]
       IN /\ calls' = Append(calls, Spawn(editorCommand, <<"--remote", RemoteArg(sshHost), WorkspacePath>>))
          /\ IF outcome = "throw"
             THEN /\ error' = thrown
                  /\ log' = log \o <<opening, Err("Error: " \o thrown.message)>>
                  /\ pc' = "exited"
                  /\ exitCode' = <<CatchExitCode>>
                  /\ child' = Child("threw")
             ELSE /\ log' = log \o <<opening, Out(name \o " is opening. You can close this terminal.")>>
                  /\ child' = Child(IF outcome = "ok" THEN "detached" ELSE "failed")
                  /\ pc' = "returned"
                  /\ UNCHANGED <<error, exitCode>>
  /\ UNCHANGED <<script, command, options, avail, pending, listResult, startResult, environments, chosen,
                 answer, selectedEnv, editorCommand>>

\* the editor child emits 'error' and nothing listens: the exception is
\* uncaught and node leaves with 1, its code for uncaught exceptions
EditorError ==
  /\ pc = "returned"
  /\ ~ShellFlow
  /\ child.state = "failed"
  /\ log' = Append(log, Err("Uncaught Error: spawn " \o editorCommand \o " ENOENT"))
  /\ pc' = "exited"
  /\ exitCode' = <<1>>
  /\ UNCHANGED <<script, command, options, avail, pending, listResult, startResult, environments, chosen,
                 answer, selectedEnv, editorCommand, child, calls, error>>

\* the handler has returned and the unref'd child keeps nothing alive
EventLoopDrain ==
  /\ pc = "returned"
  /\ ~ShellFlow
  /\ child.state = "detached"
  /\ pc' = "exited"
  /\ exitCode' = <<0>>
  /\ UNCHANGED <<script, command, options, avail, pending, listResult, startResult, environments, chosen,
                 answer, selectedEnv, editorCommand, child, calls, log, error>>

Next ==
  \/ ListCall
  \/ ListReturn
  \/ PromptForEnvironment
  \/ EnsureEnvironmentRunning
  \/ StartReturn
  \/ sshIntoGitpod
  \/ SshError
  \/ SshExit
  \/ openInEditor
  \/ DetectFirst
  \/ DetectSecond
  \/ VerifyEditor
  \/ SpawnEditor
  \/ EditorError
  \/ EventLoopDrain

Spec == Init /\ [][Next]_vars

----------------------------------------------------------------------------
(* The parser and the selection on any text.  The listing command is an    *)
(* external program: its standard output may start with empty lines, lack  *)
(* the header, repeat a row or list one id twice.  This specification      *)
(* starts where execAsync has resolved with such a text and follows the    *)
(* flow through the parser, the prompt and the phase test.                 *)

\* Lines a text is made of: the data lines, the header, an empty line
ParserLines == DataLines \cup {Header, ""}

RECURSIVE JoinWith(_, _)
JoinWith(lines, sep) ==
  IF lines = <<>> THEN ""
  ELSE IF Len(lines) = 1 THEN Head(lines)
  ELSE Head(lines) \o sep \o JoinWith(Tail(lines), sep)

\* every text of at most MaxLines lines, with and without a final newline
ParserInputs ==
  { JoinWith(lines, "\n") : lines \in UNION {[1..n -> ParserLines] : n \in 0..MaxLines} }

ParserInit ==
  /\ script \in Scripts
  /\ command = ""
  /\ options = [editor |-> Undefined, path |-> DEFAULT_WORKSPACE_PATH]
  /\ avail = [e \in Editors |-> FALSE]
  /\ pc = "parse"
  /\ pending = ""
  /\ listResult \in { [status |-> "ok", code |-> "0", stdout |-> o, stderr |-> "",
                       located |-> TRUE] : o \in ParserInputs }
  /\ startResult = NoResult
  /\ environments = <<>>
  /\ chosen = 0
  /\ answer = Undefined
  /\ selectedEnv = NoEnv
  /\ editorCommand = Undefined
  /\ child = Child("none")
  /\ calls = <<Exec(ListCommand), Settled(ListCommand)>>
  /\ log = <<Out("Fetching Gitpod environments...\n")>>
  /\ error = NoError
  /\ exitCode = <<>>

\* return parseGitpodEnvironments(stdout), and the empty test of the caller
Parse ==
  /\ pc = "parse"
  /\ LET value == parseGitpodEnvironments(listResult.stdout, script = "index.js")
     IN /\ environments' = value
        /\ IF NoEnvironments(value)
           THEN /\ log' = Append(log, Out(NoEnvironmentsMessage))
                /\ pc' = "exited"
                /\ exitCode' = <<0>>
           ELSE /\ pc' = "prompt"
                /\ UNCHANGED <<log, exitCode>>
  /\ UNCHANGED <<script, command, options, avail, pending, listResult, startResult, chosen,
                 answer, selectedEnv, editorCommand, child, calls, error>>

ParserNext ==
  \/ Parse
  \/ PromptForEnvironment
  \/ EnsureEnvironmentRunning

ParserSpec == ParserInit /\ [][ParserNext]_vars

----------------------------------------------------------------------------
(* Reading the history *)

HasPrefix(s, prefix) == Len(s) >= Len(prefix) /\ SubSeq(s, 1, Len(prefix)) = prefix

Positions(Test(_)) == {k \in 1..Len(calls) : Test(calls[k])}

IsLaunch(c) == c.fn = "spawn"

IsListExec(c) == c.fn = "exec" /\ c.file = "gitpod environment list"

IsStartExec(c) == c.fn = "exec" /\ HasPrefix(c.file, "gitpod environment start ")

IsProbeExec(c) == c.fn = "exec" /\ HasPrefix(c.file, "which ")

Launches == Positions(IsLaunch)

StartExecs == Positions(IsStartExec)

\* the record rendered on the entry the user confirmed
SelectedRecord == IF script = "index.js" THEN environments[chosen] ELSE selectedEnv

RunningSpellings == {"Running", "RUNNING", "running"}

OtherPhases == {"stopped", "Starting", ""}

Handlers == script = "part_001"

CodeFlow == script = "part_001" /\ command = "code"

----------------------------------------------------------------------------
(* Claims *)

\* C1: in the ssh flow and in the code flow, when the selected record's phase
\* is not "running" (compared without case), every launch of a connection
\* subprocess is preceded by a start invocation for that record's id, and by
\* the settling of that invocation with success.
C1_StartBeforeConnect ==
  (Handlers /\ chosen # 0 /\ ToLowerCase(SelectedRecord.phase) # "running") =>
    \A k \in Launches :
      \E i, j \in 1..(k - 1) :
        /\ i < j
        /\ calls[i] = [fn |-> "exec", file |-> "gitpod environment start " \o SelectedRecord.id,
                       args |-> <<>>]
        /\ calls[j] = [fn |-> "settled", file |-> "gitpod environment start " \o SelectedRecord.id,
                       args |-> <<>>]
        /\ startResult.status = "ok"

C1_Witness ==
  /\ Handlers
  /\ chosen # 0
  /\ SelectedRecord.phase = "stopped"
  /\ Launches # {}
  /\ StartExecs # {}

PhaseClassification ==
  /\ \A p \in RunningSpellings : IsRunning(p)
  /\ \A p \in OtherPhases : ~IsRunning(p)

\* C2: a selected record whose phase is spelled "Running", "RUNNING" or
\* "running" reaches the connection step with no start invocation issued,
\* and every other phase ("stopped", "Starting", "") is classified as not
\* running: once the reconciliation step is passed a start was invoked.
C2_RunningNeedsNoStart ==
  /\ PhaseClassification
  /\ (chosen # 0 /\ SelectedRecord.phase \in RunningSpellings) =>
       /\ StartExecs = {}
       /\ startResult = NoResult
       /\ pc # "start_wait"
       /\ pc = "exited" => Launches # {} \/ Positions(IsProbeExec) # {}
  /\ (script # "index.js" /\ chosen # 0 /\ SelectedRecord.phase \notin RunningSpellings
        /\ pc # "ensure") => StartExecs # {}

C2_Witness ==
  /\ chosen # 0
  /\ SelectedRecord.phase = "RUNNING"
  /\ Launches # {}
  /\ StartExecs = {}

\* C3: when the lister returns zero records the command prints the
\* informational message and leaves with exit code 0, and nothing else has
\* happened: no selection, no start, no probe, no launch.
C3_EmptyListingExitsZero ==
  (listResult.status # "none" /\ error = NoError /\ environments = <<>>) =>
    /\ pc = "exited"
    /\ exitCode = <<0>>
    /\ log[Len(log)].stream = "out"
    /\ log[Len(log)].text \in {"No Gitpod environments found.",
                               "No running Gitpod environments found."}
    /\ chosen = 0
    /\ \A k \in 1..Len(calls) : IsListExec(calls[k]) \/ calls[k].fn = "settled"
    /\ Len(calls) = 2

C3_Witness ==
  /\ listResult.status = "ok"
  /\ listResult.stdout = "ID REPOSITORY BRANCH CLASS PHASE\n"
  /\ environments = <<>>
  /\ exitCode = <<0>>

\* the state in which the listing invocation has just settled
ListerAnswered == listResult.status # "none" /\ Len(calls) = 2

\* the lister threw: the handler's catch ran before anything but the listing
ListerFailed == listResult.status # "none" /\ error # NoError /\ Len(calls) = 2

ListerReturned == listResult.status # "none" /\ ~ListerFailed

IsToolNotFound == ListerFailed /\ error.message = "gitpod CLI not found. Please install it first."

IsListToolError == ListerFailed /\ HasPrefix(error.message, "Error running gitpod command: ")

ParsedStdout ==
  /\ ListerReturned
  /\ environments = parseGitpodEnvironments(listResult.stdout, script = "index.js")

\* C4 as stated: ToolNotFound exactly when the executable cannot be located,
\* ToolError exactly when the tool exists and wrote diagnostic text with empty
\* standard output, and in every other case the standard output is parsed.
C4_Original ==
  ListerAnswered =>
    /\ IsToolNotFound <=> ~listResult.located
    /\ IsListToolError <=>
         (listResult.located /\ listResult.stderr # "" /\ listResult.stdout = "")
    /\ (listResult.located /\ ~(listResult.stderr # "" /\ listResult.stdout = ""))
         => ParsedStdout

\* C4 amended: the lister fails exactly when the listing invocation is
\* rejected (it cannot be spawned or exits non-zero) or completes with
\* diagnostic text and empty standard output.  The failure is ToolNotFound
\* exactly when the rejection's code is ENOENT or the diagnostic text contains
\* "command not found"; otherwise it is ToolError for diagnostic text with
\* empty standard output, and the rejection's own error for any other rejected
\* invocation.  In every other case, diagnostic text accompanied by non-empty
\* standard output included, the standard output is parsed.
C4_ListerOutcome ==
  ListerAnswered =>
    LET r == listResult
        rejected == r.status # "ok"
        diagOnly == r.status = "ok" /\ r.stderr # "" /\ r.stdout = ""
        notFound == r.code = "ENOENT" \/ Includes(r.stderr, "command not found")
    IN /\ ListerFailed <=> (rejected \/ diagOnly)
       /\ IsToolNotFound <=> ((rejected \/ diagOnly) /\ notFound)
       /\ IsListToolError <=> (diagOnly /\ ~notFound)
       /\ (rejected /\ ~notFound) =>
            /\ ListerFailed
            /\ HasPrefix(error.message, "Command failed: gitpod environment list\n")
            /\ error.code = r.code
       /\ ListerFailed => exitCode = <<1>> /\ environments = <<>>
       /\ ~(rejected \/ diagOnly) => ParsedStdout

C4_Witness ==
  /\ ListerAnswered
  /\ listResult.status = "ok"
  /\ listResult.stderr = "warning: token expires soon"
  /\ listResult.stdout # ""
  /\ ParsedStdout
  /\ Len(environments) = 2

\* the start step threw
StartFailed ==
  startResult.status # "none" /\ HasPrefix(error.message, "Failed to start environment: ")

\* C5 as stated: the reconciliation of a record that is not running fails
\* exactly when the start invocation reports diagnostic text containing
\* "error"; every other completion proceeds to the connection step.
C5_Original ==
  startResult.status # "none" =>
    /\ StartFailed <=> Includes(startResult.stderr, "error")
    /\ StartFailed => Launches = {}

\* C5 amended: for a selected record that is not running, reconciliation
\* fails with ToolError, exit code 1 and no connection subprocess launched if
\* the start invocation is rejected (it cannot be spawned or exits non-zero)
\* or reports diagnostic text containing the literal substring "error"; every
\* other completion is treated as success and the flow proceeds to the
\* connection step.
C5_StartOutcome ==
  startResult.status # "none" =>
    /\ ToLowerCase(SelectedRecord.phase) # "running"
    /\ StartFailed <=> (startResult.status # "ok" \/ Includes(startResult.stderr, "error"))
    /\ StartFailed => /\ Launches = {}
                      /\ Positions(IsProbeExec) = {}
                      /\ pc = "exited"
                      /\ exitCode = <<1>>
    /\ ~StartFailed =>
         /\ pc # "start_wait"
         /\ \E k \in 1..Len(log) : log[k] = [stream |-> "out", text |-> "Environment started successfully!\n"]
         /\ pc = "exited" => Launches # {} \/ Positions(IsProbeExec) # {}

C5_Witness ==
  /\ startResult.status = "ok"
  /\ startResult.stderr = "error: quota exceeded"
  /\ StartFailed
  /\ exitCode = <<1>>

\* the commands whose availability was probed, in order
RECURSIVE ProbedIn(_)
ProbedIn(cs) ==
  IF cs = <<>> THEN <<>>
  ELSE (IF IsProbeExec(Head(cs))
        THEN <<SubSeq(Head(cs).file, Len("which ") + 1, Len(Head(cs).file))>>
        ELSE <<>>) \o ProbedIn(Tail(cs))

Probed == ProbedIn(calls)

ProbeFailed == \E k \in 1..Len(Probed) : ~avail[Probed[k]]

LaunchFailed == child.state \in {"failed", "threw"}

CaughtAtTopLevel ==
  /\ error # NoError
  /\ log[Len(log)] = [stream |-> "err", text |-> "Error: " \o error.message]

\* C6 as stated, its exit code: in both command handlers a run in which an
\* invocation of a collaborator (listing, start, availability probe,
\* connection launch) raised an error ends with exit code 1.
C6_Original ==
  (Handlers /\ pc = "exited" /\ (ListerFailed \/ StartFailed \/ ProbeFailed \/ LaunchFailed))
    => exitCode = <<1>>

\* C6 amended: in both command handlers every error of the listing or the
\* start invocation, and every error spawn() throws, is caught at the top
\* level of the handler and the process terminates at once with exit code 1;
\* a connection subprocess that fails to spawn asynchronously also ends the
\* process with exit code 1.  A failed availability probe is absorbed as "not
\* available": it ends the run with exit code 1 only when it leaves no editor
\* to launch, and otherwise the editor found is launched.
C6_ErrorsExitOne ==
  Handlers =>
    /\ (ListerFailed \/ StartFailed \/ child.state = "threw") =>
         pc = "exited" /\ exitCode = <<1>> /\ CaughtAtTopLevel
    /\ (child.state = "failed" /\ pc = "exited") => exitCode = <<1>>
    /\ (ProbeFailed /\ pc = "exited" /\ ~LaunchFailed) =>
         (exitCode = <<1>> <=> Launches = {})
    /\ (ProbeFailed /\ Launches = {} /\ pc = "exited") => CaughtAtTopLevel

C6_Witness ==
  /\ CodeFlow
  /\ ProbeFailed
  /\ Launches = {}
  /\ exitCode = <<1>>
  /\ CaughtAtTopLevel

\* C7: in the shell strategy the tool is alive as long as the ssh subprocess
\* runs, and once the subprocess has exited the tool's exit code is the
\* subprocess's numeric code, or 0 when it was ended by a signal.
C7_ShellExitCode ==
  ShellFlow =>
    /\ child.state = "running" => pc = "returned" /\ exitCode = <<>>
    /\ child.state = "exited" =>
         /\ pc = "exited"
         /\ exitCode = <<IF child.ev.hasCode THEN child.ev.code ELSE 0>>

C7_Witness ==
  /\ ShellFlow
  /\ child.state = "exited"
  /\ child.ev.hasCode
  /\ child.ev.code = 130
  /\ exitCode = <<130>>

ExplicitEditor == options.editor \notin {"<undefined>", ""}

FirstAvailable == IF avail["cursor"] THEN "cursor" ELSE "code"

\* C8: with an explicit editor name only that editor is probed, it is the
\* only editor ever launched, and the run fails when it is unavailable; with
\* no override "cursor" is probed first and "code" only after "cursor" was
\* found unavailable, the first available of the two is the one launched, and
\* the run fails with an error naming both when neither is available.
C8_EditorResolution ==
  CodeFlow =>
    /\ \A k \in Launches : avail[calls[k].file]
    /\ ExplicitEditor =>
         /\ \A k \in 1..Len(Probed) : Probed[k] = options.editor
         /\ \A k \in Launches : calls[k].file = options.editor
         /\ (Probed # <<>> /\ ~avail[options.editor]) =>
              /\ pc = "exited"
              /\ exitCode = <<1>>
              /\ HasPrefix(error.message, options.editor \o " command not found.")
    /\ ~ExplicitEditor =>
         /\ \A k \in 1..Len(Probed) : Probed[k] \in {"cursor", "code"}
         /\ Probed # <<>> => Probed[1] = "cursor"
         /\ (\E k \in 1..Len(Probed) : Probed[k] = "code") => ~avail["cursor"]
         /\ \A k \in Launches : calls[k].file = FirstAvailable
         /\ (Len(Probed) >= 2 /\ ~avail["cursor"] /\ ~avail["code"]) =>
              /\ pc = "exited"
              /\ exitCode = <<1>>
              /\ Includes(error.message, "VS Code")
              /\ Includes(error.message, "Cursor")
         /\ (pc = "exited" /\ Probed # <<>> /\ (avail["cursor"] \/ avail["code"])) =>
              Launches # {}

C8_Witness ==
  /\ CodeFlow
  /\ ~ExplicitEditor
  /\ ~avail["cursor"]
  /\ avail["code"]
  /\ \E k \in Launches : calls[k].file = "code"

\* C9: in the code flow with no editor override and neither "cursor" nor
\* "code" available, no subprocess is ever spawned, and once both have been
\* probed the run has failed with EditorNotFound and exit code 1.
C9_NoEditorNoLaunch ==
  (CodeFlow /\ ~ExplicitEditor /\ ~avail["cursor"] /\ ~avail["code"]) =>
    /\ Launches = {}
    /\ child.state = "none"
    /\ Len(Probed) <= 2
    /\ Len(Probed) = 2 =>
         /\ pc = "exited"
         /\ exitCode = <<1>>
         /\ HasPrefix(error.message, "Neither VS Code nor Cursor CLI found")

C9_Witness ==
  /\ CodeFlow
  /\ options.editor = "<undefined>"
  /\ ~avail["cursor"]
  /\ ~avail["code"]
  /\ Probed = <<"cursor", "code">>
  /\ exitCode = <<1>>

\* C10: a run launches at most one connection subprocess, of the strategy of
\* the invoked command (ssh for no subcommand or `ssh`, the editor for
\* `code`), addressed to "{id}.gitpod.environment" for the id of the record
\* the user selected ("ssh-remote+" before it for the editor); the listing and
\* the start command are each invoked at most once.
C10_OneConnection ==
  /\ Cardinality(Launches) <= 1
  /\ Cardinality(Positions(IsListExec)) <= 1
  /\ Cardinality(StartExecs) <= 1
  /\ Launches # {} => chosen # 0
  /\ \A k \in StartExecs :
       calls[k].file = "gitpod environment start " \o environments[chosen].id
  /\ \A k \in Launches :
       IF script = "part_001" /\ command = "code"
       THEN /\ calls[k].file \in {"cursor", "code", "vim"}
            /\ Len(calls[k].args) = 3
            /\ calls[k].args[1] = "--remote"
            /\ calls[k].args[2] = "ssh-remote+" \o environments[chosen].id \o ".gitpod.environment"
       ELSE /\ calls[k].file = "ssh"
            /\ calls[k].args = <<environments[chosen].id \o ".gitpod.environment">>

C10_Witness ==
  /\ Len(environments) = 2
  /\ chosen = 2
  /\ command = "code"
  /\ \E k \in Launches : calls[k].args[2] = "ssh-remote+def456.gitpod.environment"

----------------------------------------------------------------------------
(* The parser against its reference *)

\* the pieces of s between the characters of seps, in order; empty pieces
\* are kept or left out
RefCut(s, seps, keepEmpty) ==
  LET cuts == {0, Len(s) + 1} \cup {i \in 1..Len(s) : Ch(s, i) \in seps}
      After(i) == CHOOSE j \in cuts : j > i /\ \A k \in cuts : k > i => j <= k
      RECURSIVE From(_)
      From(i) ==
        IF i > Len(s) THEN <<>>
        ELSE LET piece == SubSeq(s, i + 1, After(i) - 1)
             IN (IF keepEmpty \/ piece # "" THEN <<piece>> ELSE <<>>) \o From(After(i))
  IN From(0)

RefLines(text) == RefCut(text, {"\n"}, TRUE)

RefTokens(line) == RefCut(line, {" ", "\t", "\r", "\n"}, FALSE)

\* one record per line of at least five tokens, in line order
RECURSIVE RefRecords(_, _)
RefRecords(lines, runningOnly) ==
  IF lines = <<>> THEN <<>>
  ELSE LET t == RefTokens(Head(lines))
           dropped == Len(t) < 5 \/ (runningOnly /\ ToLowerCase(t[5]) # "running")
       IN (IF dropped THEN <<>>
           ELSE << [id |-> t[1], repositoryUrl |-> t[2], branch |-> t[3],
                    resourceClass |-> t[4], phase |-> t[5]] >>)
          \o RefRecords(Tail(lines), runningOnly)

\* the reference of the claim: the first line goes, whatever it holds
Reference(text) == RefRecords(Tail(RefLines(text)), FALSE)

RECURSIVE DropBlankLines(_)
DropBlankLines(lines) ==
  IF lines = <<>> \/ RefTokens(Head(lines)) # <<>> THEN lines
  ELSE DropBlankLines(Tail(lines))

\* the amended reference: the line that goes is the first line that is not
\* blank, together with the blank lines before it
ReferenceFromFirstText(text, runningOnly) ==
  LET lines == DropBlankLines(RefLines(text))
  IN IF lines = <<>> THEN <<>> ELSE RefRecords(Tail(lines), runningOnly)

\* the five fields of the claim's record, read off the records of the code
FiveFields(envs) ==
  [k \in 1..Len(envs) |->
     [id |-> envs[k].id, repositoryUrl |-> envs[k].repository, branch |-> envs[k].branch,
      resourceClass |-> envs[k].classId, phase |-> envs[k].phase]]

Parsed == pc # "parse"

StartsWithBlankLine(text) == RefLines(text) # <<>> /\ RefTokens(Head(RefLines(text))) = <<>>

----------------------------------------------------------------------------
(* The selection against the rendered list *)

\* the data model's invariant of one listing snapshot
UniqueNonEmptyIds(envs) ==
  /\ \A i \in 1..Len(envs) : envs[i].id # ""
  /\ \A i, j \in 1..Len(envs) : i # j => envs[i].id # envs[j].id

\* the presenter of part_000 and part_001 has returned
Presented == script # "index.js" /\ chosen # 0

\* the phase test that follows the presenter has been made
Reconciled == Presented /\ pc # "ensure"

\* C12: for every non-empty record list of the parser whose ids are
\* non-empty and unique and every entry the user confirms, the presenter
\* returns the full record rendered on that entry (same id, repository,
\* branch and phase), and the start invocation is issued, for that id, exactly
\* when the phase shown on the entry is not "running".
C12_ReturnsRenderedRecord ==
  (Presented /\ UniqueNonEmptyIds(environments)) =>
    /\ selectedEnv = environments[chosen]
    /\ Reconciled =>
         /\ StartExecs # {} <=> ToLowerCase(environments[chosen].phase) # "running"
         /\ \A k \in StartExecs :
              calls[k].file = "gitpod environment start " \o environments[chosen].id

\* the second entry of a list of two records with different ids and
\* different phases is confirmed, and the phase test has been made
C12_Witness ==
  /\ Reconciled
  /\ UniqueNonEmptyIds(environments)
  /\ Len(environments) = 2
  /\ chosen = 2
  /\ ToLowerCase(environments[1].phase) = "running"
  /\ ToLowerCase(environments[2].phase) # "running"
  /\ StartExecs # {}

====
